---- MODULE Spec2Model ----
(***************************************************************************)
(* CHIP-8 interpreter core of agabani/chip-8-emulator: the emulator facade *)
(* (src/chip8/emulator.rs), keypad, timers, register file, memory and the  *)
(* execution engine (src/chip8/cpu.rs, src/chip8/operation.rs).            *)
(*                                                                         *)
(* Durations are held in whole microseconds: every delta handed to emulate *)
(* is a whole number of microseconds, so the millisecond and microsecond   *)
(* truncations of the code (as_millis, as_micros) are computed exactly.    *)
(* A Rust panic is modelled by the variable panic: once it is set the      *)
(* process is gone and no operation is enabled.                            *)
(***************************************************************************)
EXTENDS Integers, Sequences, FiniteSets, TLC

\* ------------------------------------------------------------------ bounds
\* largest value of the time accumulator (microseconds) the model explores
MaxTime == 4000
\* largest return-stack depth the model explores (the code has no limit)
MaxStack == 17

\* ------------------------------------------------------- program constants
RamSize == 4096
FontStart == 80
RomStart == 512
\* Duration::from_secs(1) / 700, read back with as_micros()
execute_interval == 1000000 \div 700
\* the largest ROM that fits between RomStart and the end of the RAM
MaxRomLen == RamSize - RomStart

Nibble == 0..15
\* Option::None of Option<Key> and Option<u8>
None == -1
\* a value that stands for "this evaluation panicked"
Panicked == -2

\* ---------------------------------------------------------------- helpers
\* the pixels that differ between two displays
Changed(d1, d2) == (d1 \ d2) \union (d2 \ d1)

RECURSIVE Pow2(_)
Pow2(n) == IF n = 0 THEN 1 ELSE 2 * Pow2(n - 1)

\* bit k (0 = least significant) of byte b
Bit(b, k) == (b \div Pow2(k)) % 2

RECURSIVE BitOp(_, _, _, _)
\* bitwise combination of two bytes, op is "and", "or" or "xor"
BitOp(op, a, b, k) ==
    IF k = 8 THEN 0
    ELSE LET x == Bit(a, k)
             y == Bit(b, k)
             r == CASE op = "and" -> x * y
                    [] op = "or"  -> IF x + y > 0 THEN 1 ELSE 0
                    [] op = "xor" -> (x + y) % 2
         IN  r * Pow2(k) + BitOp(op, a, b, k + 1)

\* the 80 font bytes, Font::new()
Font ==
    << 240, 144, 144, 144, 240,   32,  96,  32,  32, 112,
       240,  16, 240, 128, 240,  240,  16, 240,  16, 240,
       144, 144, 240,  16,  16,  240, 128, 240,  16, 240,
       240, 128, 240, 144, 240,  240,  16,  32,  64,  64,
       240, 144, 240, 144, 240,  240, 144, 240,  16, 240,
       240, 144, 240, 144, 144,  224, 144, 224, 144, 224,
       240, 128, 128, 128, 240,  224, 144, 144, 144, 224,
       240, 128, 240, 128, 240,  240, 128, 240, 128, 128 >>

\* ------------------------------------------------------------------ Memory
\* Cursor<&mut Vec<u8>>::write_all at position pos (at most the length of
\* the vector): overwrites, and grows the vector when the data runs past
\* its end; it never fails
CursorWrite(ram, pos, data) ==
    SubSeq(ram, 1, pos) \o data \o SubSeq(ram, pos + Len(data) + 1, Len(ram))

Memory_new == [a \in 1..RamSize |-> 0]

Memory_load_font(ram, font) == CursorWrite(ram, FontStart, font)

\* a plausible slip: the ROM is written one byte too far
Memory_load_rom_off_by_one(ram, rom) == CursorWrite(ram, RomStart + 1, rom)

Memory_load_rom(ram, rom) == CursorWrite(ram, RomStart, rom)

\* ram[address]: an index past the end of the vector panics
Memory_in_range(ram, address) == address >= 0 /\ address < Len(ram)

Memory_get_byte(ram, address) == ram[address + 1]

Memory_set_byte(ram, address, byte) == [ram EXCEPT ![address + 1] = byte]

\* ------------------------------------------------------------------- Timer
Timer_new == 0

\* a plausible slip: the reading is rounded down
Timer_get_rounding_down(remaining_us, checks) ==
    (((remaining_us \div 1000) * 60) \div 1000) % 256

\* Timer::get on a remaining duration (microseconds); overflow_checks is
\* the build's choice for integer overflow (panic when on, wrap when off)
Timer_get(remaining_us, checks) ==
    LET millis    == remaining_us \div 1000
        remaining == (millis * 60) \div 1000
        remainder == millis % 1000
        as_u8     == remaining % 256
    IN  IF remainder = 0 THEN as_u8
        ELSE IF as_u8 = 255 THEN (IF checks THEN Panicked ELSE 0)
        ELSE as_u8 + 1

\* Duration::from_secs(nn) / 60
Timer_set(nn) == (nn * 1000000) \div 60

\* a plausible slip: the tick leaves the remaining time as it is
Timer_tick_ignoring_duration(remaining_us, duration) == remaining_us

\* saturating_sub
Timer_tick(remaining_us, duration) ==
    IF remaining_us >= duration THEN remaining_us - duration ELSE 0

\* ------------------------------------------------------------------ Keypad
Keypad_new == [last_key |-> None, pressed |-> [k \in Nibble |-> FALSE]]

\* Keypad::map: Key0..Key9, A..F to 0x0..0xF; a Key is named by its value
Keypad_map(key) == key

Keypad_pressed(kp, key) ==
    [last_key |-> key,
     pressed  |-> [kp.pressed EXCEPT ![Keypad_map(key)] = TRUE]]

\* a plausible slip: any release clears the last key
Keypad_released_clears_always(kp, key) ==
    [last_key |-> None,
     pressed  |-> [kp.pressed EXCEPT ![Keypad_map(key)] = FALSE]]

\* a plausible slip: a release never clears the last key
Keypad_released_keeping_last_key(kp, key) ==
    [last_key |-> kp.last_key,
     pressed  |-> [kp.pressed EXCEPT ![Keypad_map(key)] = FALSE]]

Keypad_released(kp, key) ==
    [last_key |-> IF kp.last_key # None /\ kp.last_key = key
                  THEN None ELSE kp.last_key,
     pressed  |-> [kp.pressed EXCEPT ![Keypad_map(key)] = FALSE]]

Keypad_read(kp) == IF kp.last_key = None THEN None ELSE Keypad_map(kp.last_key)

Keypad_is_pressed(kp, key) == kp.pressed[key]

\* ---------------------------------------------------------------- Register
Register_new ==
    [i |-> 0, program_counter |-> RomStart, stack |-> << >>,
     v |-> [x \in Nibble |-> 0]]

push_stack(reg, nnn) == [reg EXCEPT !.stack = Append(reg.stack, nnn)]

\* --------------------------------------------------------------- Operation
\* nibble::from_bytes
nibble_from_bytes(bytes) ==
    << (bytes[1] - (bytes[1] % 16)) \div 16, bytes[1] % 16,
       (bytes[2] - (bytes[2] % 16)) \div 16, bytes[2] % 16 >>

nibble_to_n(n) == n

\* a plausible slip: the high nibble is not shifted
nibble_to_nn_without_shift(n3, n4) == n3 + n4

\* (n3 << 4) + n4 on u8
nibble_to_nn(n3, n4) == ((n3 * 16) % 256) + n4

\* (n2 << 8) + (n3 << 4) + n4 on u16
nibble_to_nnn(n2, n3, n4) == n2 * 256 + n3 * 16 + n4

OpX(name, n2) == [op |-> name, x |-> nibble_to_n(n2)]
OpXY(name, n2, n3) == [op |-> name, x |-> nibble_to_n(n2), y |-> nibble_to_n(n3)]
OpXNN(name, n2, n3, n4) ==
    [op |-> name, x |-> nibble_to_n(n2), nn |-> nibble_to_nn(n3, n4)]
OpNNN(name, n2, n3, n4) == [op |-> name, nnn |-> nibble_to_nnn(n2, n3, n4)]

\* Operation::parse; the last arm of the match is todo!(), a panic
Operation_parse(bytes) ==
    LET nb == nibble_from_bytes(bytes)
        n1 == nb[1]
        n2 == nb[2]
        n3 == nb[3]
        n4 == nb[4]
    IN  CASE nb = <<0, 0, 14, 0>>  -> [op |-> "CLS"]
          [] nb = <<0, 0, 14, 14>> -> [op |-> "RET"]
          [] n1 = 0 /\ nb # <<0, 0, 14, 0>> /\ nb # <<0, 0, 14, 14>>
                                   -> OpNNN("SYS", n2, n3, n4)
          [] n1 = 1  -> OpNNN("JP", n2, n3, n4)
          [] n1 = 2  -> OpNNN("CALL", n2, n3, n4)
          [] n1 = 3  -> OpXNN("SE1", n2, n3, n4)
          [] n1 = 4  -> OpXNN("SNE1", n2, n3, n4)
          [] n1 = 5 /\ n4 = 0  -> [op |-> "SE2", x |-> n2, y |-> n3]
          [] n1 = 6  -> OpXNN("LD1", n2, n3, n4)
          [] n1 = 7  -> OpXNN("ADD1", n2, n3, n4)
          [] n1 = 8 /\ n4 = 0  -> OpXY("LD2", n2, n3)
          [] n1 = 8 /\ n4 = 1  -> OpXY("OR", n2, n3)
          [] n1 = 8 /\ n4 = 2  -> OpXY("AND2", n2, n3)
          [] n1 = 8 /\ n4 = 3  -> OpXY("XOR", n2, n3)
          [] n1 = 8 /\ n4 = 4  -> OpXY("ADD2", n2, n3)
          [] n1 = 8 /\ n4 = 5  -> OpXY("SUB", n2, n3)
          [] n1 = 8 /\ n4 = 6  -> OpXY("SHR", n2, n3)
          [] n1 = 8 /\ n4 = 7  -> OpXY("SUBN", n2, n3)
          [] n1 = 8 /\ n4 = 14 -> OpXY("SHL", n2, n3)
          [] n1 = 9 /\ n4 = 0  -> OpXY("SNE2", n2, n3)
          [] n1 = 10 -> OpNNN("LDI", n2, n3, n4)
          [] n1 = 11 -> OpNNN("JPV0", n2, n3, n4)
          [] n1 = 12 -> OpXNN("RND", n2, n3, n4)
          [] n1 = 13 -> [op |-> "DRW", x |-> nibble_to_n(n2),
                         y |-> nibble_to_n(n3), n |-> nibble_to_n(n4)]
          [] n1 = 14 /\ n3 = 9 /\ n4 = 14  -> OpX("SKP", n2)
          [] n1 = 14 /\ n3 = 10 /\ n4 = 1  -> OpX("SKNP", n2)
          [] n1 = 15 /\ n3 = 0 /\ n4 = 7   -> OpX("LDVDT", n2)
          [] n1 = 15 /\ n3 = 0 /\ n4 = 10  -> OpX("LDK", n2)
          [] n1 = 15 /\ n3 = 1 /\ n4 = 5   -> OpX("LDDTV", n2)
          [] n1 = 15 /\ n3 = 1 /\ n4 = 8   -> OpX("LDST", n2)
          [] n1 = 15 /\ n3 = 1 /\ n4 = 14  -> OpX("ADDI", n2)
          [] n1 = 15 /\ n3 = 2 /\ n4 = 9   -> OpX("LDF", n2)
          [] n1 = 15 /\ n3 = 3 /\ n4 = 3   -> OpX("BinaryCodedDecimalConversion", n2)
          [] n1 = 15 /\ n3 = 5 /\ n4 = 5   -> OpX("StoreMemory", n2)
          [] n1 = 15 /\ n3 = 6 /\ n4 = 5   -> OpX("LoadMemory", n2)
          [] OTHER -> [op |-> "todo", n1 |-> n1, n2 |-> n2, n3 |-> n3, n4 |-> n4]

\* --------------------------------------------------------------------- Cpu
\* The state one Cpu::execute call borrows: register, display, memory and
\* the two timers.  panic is "none" or the reason the call panicked.
CpuState(reg, disp, ram, dt, st) ==
    [register |-> reg, display |-> disp, memory |-> ram,
     delay_timer |-> dt, sound_timer |-> st, panic |-> "none"]

Panic(c, why) == [c EXCEPT !.panic = why]

\* a + b on u16: past 0xFFFF the build panics (checks) or wraps
add_u16(a, b, checks) ==
    IF a + b <= 65535 THEN a + b
    ELSE IF checks THEN Panicked ELSE (a + b) % 65536

\* Register::increment_program_counter inside an operation
IncPc(c, checks) ==
    LET pc == add_u16(c.register.program_counter, 2, checks)
    IN  IF pc = Panicked THEN Panic(c, "overflow")
        ELSE [c EXCEPT !.register.program_counter = pc]

SetV(c, x, nn) == [c EXCEPT !.register.v[x] = nn]

\* a plausible slip: the extra increment is left out
Skip_without_extra_increment(c, cond, checks) == IncPc(c, checks)

\* the skip operations: one extra increment when the condition holds
Skip(c, cond, checks) ==
    IF cond
    THEN LET c1 == IncPc(c, checks)
         IN  IF c1.panic # "none" THEN c1 ELSE IncPc(c1, checks)
    ELSE IncPc(c, checks)

\* a plausible slip: RET returns to the CALL itself
RET_execute_without_increment(c, checks) ==
    IF c.register.stack = << >> THEN Panic(c, "failed to pop stack")
    ELSE LET n  == Len(c.register.stack)
             pc == c.register.stack[n]
         IN  [c EXCEPT !.register.stack = SubSeq(c.register.stack, 1, n - 1),
                       !.register.program_counter = pc]

RET_execute(c, checks) ==
    IF c.register.stack = << >> THEN Panic(c, "failed to pop stack")
    ELSE LET n  == Len(c.register.stack)
             pc == c.register.stack[n]
         IN  IncPc([c EXCEPT !.register.stack = SubSeq(c.register.stack, 1, n - 1),
                             !.register.program_counter = pc], checks)

\* a plausible slip: the program counter is incremented after the jump
JP_execute_then_increment(c, nnn) ==
    [c EXCEPT !.register.program_counter = nnn + 2]

JP_execute(c, nnn) == [c EXCEPT !.register.program_counter = nnn]

CALL_execute(c, nnn) ==
    [c EXCEPT !.register = [push_stack(c.register, c.register.program_counter)
                              EXCEPT !.program_counter = nnn]]

\* a plausible slip: 7XNN stops at 0xFF instead of wrapping
ADD1_execute_saturating(c, x, nn, checks) ==
    LET sum == c.register.v[x] + nn
    IN  IncPc(SetV(c, x, IF sum > 255 THEN 255 ELSE sum), checks)

\* overflowing_add, the overflow flag dropped
ADD1_execute(c, x, nn, checks) ==
    IncPc(SetV(c, x, (c.register.v[x] + nn) % 256), checks)

ADD2_execute(c, x, y, checks) ==
    LET sum == c.register.v[x] + c.register.v[y]
        c1  == SetV(c, 15, IF sum > 255 THEN 1 ELSE 0)
    IN  IncPc(SetV(c1, x, sum % 256), checks)

SUB_execute(c, x, y, checks) ==
    LET vx == c.register.v[x]
        vy == c.register.v[y]
        c1 == SetV(c, 15, IF vx < vy THEN 0 ELSE 1)
    IN  IncPc(SetV(c1, x, (vx - vy + 256) % 256), checks)

SUBN_execute(c, x, y, checks) ==
    LET vx == c.register.v[x]
        vy == c.register.v[y]
        c1 == SetV(c, 15, IF vy < vx THEN 0 ELSE 1)
    IN  IncPc(SetV(c1, x, (vy - vx + 256) % 256), checks)

SHR_execute(c, x, checks) ==
    LET vx == c.register.v[x]
        c1 == SetV(c, 15, IF vx % 2 = 1 THEN 1 ELSE 0)
    IN  IncPc(SetV(c1, x, vx \div 2), checks)

SHL_execute(c, x, checks) ==
    LET vx == c.register.v[x]
        c1 == SetV(c, 15, IF vx >= 128 THEN 1 ELSE 0)
    IN  IncPc(SetV(c1, x, (vx * 2) % 256), checks)

SKP_execute(c, x, keypad, checks) ==
    LET key == Keypad_read(keypad)
    IN  Skip(c, key # None /\ key = c.register.v[x], checks)

SKNP_execute(c, x, keypad, checks) ==
    LET key == Keypad_read(keypad)
    IN  Skip(c, IF key # None THEN key # c.register.v[x] ELSE TRUE, checks)

LDVDT_execute(c, x, checks) ==
    LET t == Timer_get(c.delay_timer, checks)
    IN  IF t = Panicked THEN Panic(c, "overflow")
        ELSE IncPc(SetV(c, x, t), checks)

\* a plausible slip: FX0A does not wait
LDK_execute_without_wait(c, x, keypad, checks) ==
    LET n == Keypad_read(keypad)
    IN  IF n # None THEN IncPc(SetV(c, x, n), checks) ELSE IncPc(c, checks)

LDK_execute(c, x, keypad, checks) ==
    LET n == Keypad_read(keypad)
    IN  IF n # None THEN IncPc(SetV(c, x, n), checks) ELSE c

ADDI_execute(c, x, checks) ==
    LET i == add_u16(c.register.i, c.register.v[x], checks)
    IN  IF i = Panicked THEN Panic(c, "overflow")
        ELSE IncPc([c EXCEPT !.register.i = i], checks)

LDF_execute(c, x, checks) ==
    IncPc([c EXCEPT !.register.i = 80 + c.register.v[x] * 5], checks)

\* pixels: [[bool; 64]; 32] indexed by [y][x]: is_pixel_on and set_pixel
\* panic on a cell outside the array
Display_in_range(cell) == cell[1] \in 0..63 /\ cell[2] \in 0..31

\* a plausible slip: a set sprite bit turns the pixel on, never off
draw_pixel_or(c, cell, sprite_row_pixel) ==
    IF sprite_row_pixel /\ cell \in c.display THEN SetV(c, 15, 1)
    ELSE IF sprite_row_pixel
    THEN [c EXCEPT !.display = c.display \union {cell}]
    ELSE c

\* a plausible slip: a collision does not reach VF
draw_pixel_without_flag(c, cell, sprite_row_pixel) ==
    IF sprite_row_pixel
    THEN [c EXCEPT !.display = Changed({cell}, c.display)]
    ELSE c

\* the if / else if of DRW::execute on one pixel
draw_pixel(c, cell, sprite_row_pixel) ==
    IF ~Display_in_range(cell) THEN Panic(c, "index out of bounds")
    ELSE
    LET display_pixel == cell \in c.display
    IN  IF sprite_row_pixel /\ display_pixel
        THEN SetV([c EXCEPT !.display = c.display \ {cell}], 15, 1)
        ELSE IF sprite_row_pixel /\ ~display_pixel
        THEN [c EXCEPT !.display = c.display \union {cell}]
        ELSE c

RECURSIVE draw_pixels_without_edge_stop(_, _, _, _, _, _)
\* a plausible slip: the row is not cut at the right edge
draw_pixels_without_edge_stop(c, x, y, row, pixel, sprite_data) ==
    IF pixel = 8 THEN c
    ELSE LET sprite_row_pixel == Bit(sprite_data, 7 - pixel) = 1
             c1 == draw_pixel(c, <<x + pixel, y + row>>, sprite_row_pixel)
         IN  IF c1.panic # "none" THEN c1
             ELSE draw_pixels_without_edge_stop(c1, x, y, row, pixel + 1,
                                                sprite_data)

RECURSIVE draw_pixels(_, _, _, _, _, _)
\* the inner loop of DRW::execute: pixel in 0..8, left to right
draw_pixels(c, x, y, row, pixel, sprite_data) ==
    IF pixel = 8 THEN c
    ELSE LET sprite_row_pixel == Bit(sprite_data, 7 - pixel) = 1
             c1 == draw_pixel(c, <<x + pixel, y + row>>, sprite_row_pixel)
         IN  IF c1.panic # "none" \/ x + pixel = 63 THEN c1
             ELSE draw_pixels(c1, x, y, row, pixel + 1, sprite_data)

RECURSIVE draw_rows(_, _, _, _, _, _)
\* the outer loop of DRW::execute: row in 0..n
draw_rows(c, x, y, n, row, checks) ==
    IF row >= n THEN c
    ELSE LET address == add_u16(c.register.i, row, checks)
         IN  IF address = Panicked THEN Panic(c, "overflow")
             ELSE IF ~Memory_in_range(c.memory, address)
             THEN Panic(c, "index out of bounds")
             ELSE LET c1 == draw_pixels(c, x, y, row, 0,
                                        Memory_get_byte(c.memory, address))
                  IN  IF c1.panic # "none" \/ y + row = 31 THEN c1
                      ELSE draw_rows(c1, x, y, n, row + 1, checks)

\* a plausible slip: the coordinates are not reduced
start_position_unreduced(c, vx, vy) ==
    << c.register.v[vx], c.register.v[vy] >>

\* the X and Y coordinates: VX modulo 64 and VY modulo 32
start_position(c, vx, vy) ==
    << c.register.v[vx] % 64, c.register.v[vy] % 32 >>

\* a plausible slip: VF is not cleared before the sprite is drawn
DRW_execute_keeping_vf(c, vx, vy, n, checks) ==
    LET xy == start_position(c, vx, vy)
        c1 == draw_rows(c, xy[1], xy[2], n, 0, checks)
    IN  IF c1.panic # "none" THEN c1 ELSE IncPc(c1, checks)

DRW_execute(c, vx, vy, n, checks) ==
    LET xy == start_position(c, vx, vy)
        c1 == draw_rows(SetV(c, 15, 0), xy[1], xy[2], n, 0, checks)
    IN  IF c1.panic # "none" THEN c1 ELSE IncPc(c1, checks)

RECURSIVE store_bytes(_, _, _, _, _)
\* memory.set_byte(I + k, bytes[k]) for k = i .. last, in order
store_bytes(c, bytes, i, last, checks) ==
    IF i > last THEN c
    ELSE LET address == add_u16(c.register.i, i, checks)
         IN  IF address = Panicked THEN Panic(c, "overflow")
             ELSE IF ~Memory_in_range(c.memory, address)
             THEN Panic(c, "index out of bounds")
             ELSE store_bytes(
                    [c EXCEPT !.memory = Memory_set_byte(c.memory, address, bytes[i])],
                    bytes, i + 1, last, checks)

\* a plausible slip: the tens are vx / 10, not reduced to one digit
execute_binary_coded_decimal_conversion_tens_unreduced(c, x, checks) ==
    LET vx     == c.register.v[x]
        digits == [k \in 0..2 |->
                     CASE k = 0 -> vx \div 100
                       [] k = 1 -> vx \div 10
                       [] k = 2 -> vx % 10]
        c1     == store_bytes(c, digits, 0, 2, checks)
    IN  IF c1.panic # "none" THEN c1 ELSE IncPc(c1, checks)

\* format!("{:03}", vx) read back digit by digit
execute_binary_coded_decimal_conversion(c, x, checks) ==
    LET vx     == c.register.v[x]
        digits == [k \in 0..2 |->
                     CASE k = 0 -> vx \div 100
                       [] k = 1 -> (vx \div 10) % 10
                       [] k = 2 -> vx % 10]
        c1     == store_bytes(c, digits, 0, 2, checks)
    IN  IF c1.panic # "none" THEN c1 ELSE IncPc(c1, checks)

\* a plausible slip: the loop stops before Vx (0..x instead of 0..=x)
execute_store_memory_exclusive(c, x, checks) ==
    LET c1 == store_bytes(c, c.register.v, 0, x - 1, checks)
    IN  IF c1.panic # "none" THEN c1 ELSE IncPc(c1, checks)

execute_store_memory(c, x, checks) ==
    LET c1 == store_bytes(c, c.register.v, 0, x, checks)
    IN  IF c1.panic # "none" THEN c1 ELSE IncPc(c1, checks)

RECURSIVE load_bytes(_, _, _, _)
\* for i in 0..=x: register.set_v_register(x, memory.get_byte(I + i))
load_bytes(c, x, i, checks) ==
    IF i > x THEN c
    ELSE LET address == add_u16(c.register.i, i, checks)
         IN  IF address = Panicked THEN Panic(c, "overflow")
             ELSE IF ~Memory_in_range(c.memory, address)
             THEN Panic(c, "index out of bounds")
             ELSE load_bytes(SetV(c, x, Memory_get_byte(c.memory, address)),
                             x, i + 1, checks)

execute_load_memory(c, x, checks) ==
    LET c1 == load_bytes(c, x, 0, checks)
    IN  IF c1.panic # "none" THEN c1 ELSE IncPc(c1, checks)

\* the operation at the program counter; op "panic" when reading the two
\* instruction bytes leaves the RAM vector
Fetch(c, checks) ==
    LET pc  == c.register.program_counter
        pc1 == add_u16(pc, 1, checks)
    IN  IF ~Memory_in_range(c.memory, pc) THEN [op |-> "panic"]
        ELSE IF pc1 = Panicked \/ ~Memory_in_range(c.memory, pc1)
        THEN [op |-> "panic"]
        ELSE Operation_parse(<<Memory_get_byte(c.memory, pc),
                               Memory_get_byte(c.memory, pc1)>>)

\* Cpu::execute: fetch, decode and the match over the operation.  random is
\* the byte rand::random::<u8>() would return in this step.
Cpu_execute(c, keypad, random, checks) ==
    LET o == Fetch(c, checks)
        r == c.register
    IN  CASE o.op = "panic" -> Panic(c, "index out of bounds")
          [] o.op = "CLS"  -> IncPc([c EXCEPT !.display = {}], checks)
          [] o.op = "RET"  -> RET_execute(c, checks)
          [] o.op = "SYS"  -> Panic(c, "not yet implemented")
          [] o.op = "JP"   -> JP_execute(c, o.nnn)
          [] o.op = "CALL" -> CALL_execute(c, o.nnn)
          [] o.op = "SE1"  -> Skip(c, r.v[o.x] = o.nn, checks)
          [] o.op = "SNE1" -> Skip(c, r.v[o.x] # o.nn, checks)
          [] o.op = "SE2"  -> Skip(c, r.v[o.x] = r.v[o.y], checks)
          [] o.op = "LD1"  -> IncPc(SetV(c, o.x, o.nn), checks)
          [] o.op = "ADD1" -> ADD1_execute(c, o.x, o.nn, checks)
          [] o.op = "LD2"  -> IncPc(SetV(c, o.x, r.v[o.y]), checks)
          [] o.op = "OR"   -> IncPc(SetV(c, o.x, BitOp("or", r.v[o.x], r.v[o.y], 0)), checks)
          [] o.op = "AND2" -> IncPc(SetV(c, o.x, BitOp("and", r.v[o.x], r.v[o.y], 0)), checks)
          [] o.op = "XOR"  -> IncPc(SetV(c, o.x, BitOp("xor", r.v[o.x], r.v[o.y], 0)), checks)
          [] o.op = "ADD2" -> ADD2_execute(c, o.x, o.y, checks)
          [] o.op = "SUB"  -> SUB_execute(c, o.x, o.y, checks)
          [] o.op = "SHR"  -> SHR_execute(c, o.x, checks)
          [] o.op = "SUBN" -> SUBN_execute(c, o.x, o.y, checks)
          [] o.op = "SHL"  -> SHL_execute(c, o.x, checks)
          [] o.op = "SNE2" -> Skip(c, r.v[o.x] # r.v[o.y], checks)
          [] o.op = "LDI"  -> IncPc([c EXCEPT !.register.i = o.nnn], checks)
          [] o.op = "JPV0" -> JP_execute(c, o.nnn + r.v[0])
          [] o.op = "RND"  -> IncPc(SetV(c, o.x, BitOp("and", random, o.nn, 0)), checks)
          [] o.op = "DRW"  -> DRW_execute(c, o.x, o.y, o.n, checks)
          [] o.op = "SKP"  -> SKP_execute(c, o.x, keypad, checks)
          [] o.op = "SKNP" -> SKNP_execute(c, o.x, keypad, checks)
          [] o.op = "LDVDT" -> LDVDT_execute(c, o.x, checks)
          [] o.op = "LDK"  -> LDK_execute(c, o.x, keypad, checks)
          [] o.op = "LDDTV" -> IncPc([c EXCEPT !.delay_timer = Timer_set(r.v[o.x])], checks)
          [] o.op = "LDST" -> IncPc([c EXCEPT !.sound_timer = Timer_set(r.v[o.x])], checks)
          [] o.op = "ADDI" -> ADDI_execute(c, o.x, checks)
          [] o.op = "LDF"  -> LDF_execute(c, o.x, checks)
          [] o.op = "BinaryCodedDecimalConversion"
                           -> execute_binary_coded_decimal_conversion(c, o.x, checks)
          [] o.op = "StoreMemory" -> execute_store_memory(c, o.x, checks)
          [] o.op = "LoadMemory"  -> execute_load_memory(c, o.x, checks)
          [] o.op = "todo" -> Panic(c, "not yet implemented")

\* ------------------------------------------------------------------ inputs
\* a big-endian instruction word as its two bytes
W(word) == << word \div 256, word % 256 >>

\* timers and keypad: LD V0,2; LD DT,V0; LD V1,DT; LD ST,V0; LD V2,K;
\* SKP V0; SKNP V0; JP 0x204; JP 0x208
RomKeys ==
    W(24578) \o W(61461) \o W(61703) \o W(61464) \o W(61962) \o
    W(57502) \o W(57505) \o W(4612) \o W(4616)

\* subroutines: 0x200 CALL 0x206; 0x202 JP 0x20A; 0x204 RET; 0x206 CALL 0x208;
\* 0x208 RET; 0x20A CALL 0x20A
RomCalls ==
    W(8710) \o W(4618) \o W(238) \o W(8712) \o W(238) \o W(8714)

\* a ROM of n bytes: JP 0x200 followed by 0xFF bytes
RomOfLen(n) == [k \in 1..n |-> IF k = 1 THEN 18 ELSE IF k = 2 THEN 0 ELSE 255]

\* the files the host drops on the window
Roms == << RomKeys, RomCalls, RomOfLen(MaxRomLen), RomOfLen(MaxRomLen + 1) >>

\* the keys the host presses and releases
Keys == {1, 2}

\* the deltas (microseconds) the host hands to emulate
Deltas == {1000, 3000}

\* the bytes rand::random::<u8>() returns
RandomBytes == {0, 165, 255}

\* ------------------------------------------------------------------- state
VARIABLES
    beeping, delay_timer, display, keypad, memory, paused, register,
    sound_timer, time,
    \* the process has panicked ("none" while it runs)
    panic,
    \* the build's integer-overflow behaviour: TRUE panics, FALSE wraps
    overflow_checks,
    \* history: the last facade call and its arguments
    last_op,
    \* history: CPU steps completed by emulate calls, and the deltas
    \* handed to emulate while not paused
    cpu_steps, total_delta,
    \* history of key events: per key the most recent event, the key of
    \* the most recent press, and whether that key was released since
    key_event, recent_press, released_since,
    \* history of the sound timer: the duration FX18 last set it to (None
    \* before the first FX18) and the deltas it was ticked by since
    sound_set

emu == << beeping, delay_timer, display, keypad, memory, paused, register,
          sound_timer, time >>

vars == << beeping, delay_timer, display, keypad, memory, paused, register,
           sound_timer, time, panic, overflow_checks, last_op, cpu_steps,
           total_delta, key_event, recent_press, released_since,
           sound_set >>

Init ==
    /\ beeping = FALSE
    /\ delay_timer = Timer_new
    /\ display = {}
    /\ keypad = Keypad_new
    /\ memory = Memory_load_font(Memory_new, Font)
    /\ paused = TRUE
    /\ register = Register_new
    /\ sound_timer = Timer_new
    /\ time = 0
    /\ panic = "none"
    /\ overflow_checks \in BOOLEAN
    /\ last_op = [name |-> "new"]
    /\ cpu_steps = 0
    /\ total_delta = 0
    /\ key_event = [k \in Keys |-> "none"]
    /\ recent_press = None
    /\ released_since = FALSE
    /\ sound_set = [duration |-> None, ticked |-> 0]

\* ---------------------------------------------------------------- Emulator
\* the Emulator struct as one value
Self ==
    [beeping |-> beeping, delay_timer |-> delay_timer, display |-> display,
     keypad |-> keypad, memory |-> memory, paused |-> paused,
     register |-> register, sound_timer |-> sound_timer, time |-> time,
     panic |-> panic]

\* Emulator::new
Emulator_new ==
    [beeping |-> FALSE, delay_timer |-> Timer_new, display |-> {},
     keypad |-> Keypad_new, memory |-> Memory_load_font(Memory_new, Font),
     paused |-> TRUE, register |-> Register_new, sound_timer |-> Timer_new,
     time |-> 0, panic |-> "none"]

\* the part of the emulator a Cpu::execute call borrows, and its way back
Borrow(e) ==
    CpuState(e.register, e.display, e.memory, e.delay_timer, e.sound_timer)

Return(e, c) ==
    [e EXCEPT !.register = c.register, !.display = c.display,
              !.memory = c.memory, !.delay_timer = c.delay_timer,
              !.sound_timer = c.sound_timer, !.panic = c.panic]

\* one Cpu::execute call on every run in S; a run is the CPU state, the
\* operations fetched so far and the number of calls that returned.  RND
\* branches over the random byte; a panicked run stays as it is.
StepRuns(S, kp, checks) ==
    UNION { IF s.c.panic # "none" THEN {s}
            ELSE LET o == Fetch(s.c, checks)
                 IN  { LET c1 == Cpu_execute(s.c, kp, r, checks)
                       IN  [c |-> c1,
                            trace |-> Append(s.trace, o),
                            steps |-> IF c1.panic = "none"
                                      THEN s.steps + 1 ELSE s.steps]
                       : r \in IF o.op = "RND" THEN RandomBytes ELSE {0} }
          : s \in S }

RECURSIVE RunSteps(_, _, _, _)
\* for _ in 0..n { cpu.execute(...) }
RunSteps(S, n, kp, checks) ==
    IF n = 0 THEN S ELSE RunSteps(StepRuns(S, kp, checks), n - 1, kp, checks)

\* a plausible slip: the steps are computed from the delta alone
delta_executions_from_delta_only(current_time, delta) ==
    delta \div execute_interval

\* target_executions - current_executions of Emulator::emulate
delta_executions(current_time, delta) ==
    LET target_time        == current_time + delta
        current_executions == current_time \div execute_interval
        target_executions  == target_time \div execute_interval
    IN  target_executions - current_executions

\* a plausible slip: the beeper follows the level of the sound timer
beep_on_level(b1, b2) == b2 > 0

\* if b2 > 0 && b1 != b2 { beeping = true } else { beeping = false }
beep(b1, b2) == b2 > 0 /\ b1 # b2

\* a plausible slip: the timers are ticked after the CPU steps
emulate_running_tick_late(e, delta, checks) ==
    LET b1   == Timer_get(e.sound_timer, checks)
        n    == delta_executions(e.time, delta)
        runs == RunSteps({ [c |-> Borrow(e), trace |-> << >>, steps |-> 0] },
                         n, e.keypad, checks)
    IN  { LET e2 == Return(e, run.c)
              st == Timer_tick(e2.sound_timer, delta)
              b2 == Timer_get(st, checks)
          IN  [e |-> IF run.c.panic # "none" \/ b1 = Panicked \/ b2 = Panicked
                     THEN [e2 EXCEPT !.panic = "overflow"]
                     ELSE [e2 EXCEPT !.delay_timer = Timer_tick(e2.delay_timer, delta),
                                     !.sound_timer = st,
                                     !.beeping = beep(b1, b2),
                                     !.time = e.time + delta],
               trace |-> run.trace, steps |-> run.steps] : run \in runs }

\* Emulator::emulate past the paused check: the set of outcomes
\* [e, trace, steps] of one call.  A panic leaves the call at once: what
\* was assigned so far stays, time is not advanced.
emulate_running(e, delta, checks) ==
    LET b1 == Timer_get(e.sound_timer, checks)
        dt == Timer_tick(e.delay_timer, delta)
        st == Timer_tick(e.sound_timer, delta)
        b2 == Timer_get(st, checks)
    IN  IF b1 = Panicked
        THEN { [e |-> [e EXCEPT !.panic = "overflow"], trace |-> << >>, steps |-> 0] }
        ELSE IF b2 = Panicked
        THEN { [e |-> [e EXCEPT !.delay_timer = dt, !.sound_timer = st,
                                !.panic = "overflow"],
                trace |-> << >>, steps |-> 0] }
        ELSE
        LET e1   == [e EXCEPT !.delay_timer = dt, !.sound_timer = st,
                              !.beeping = beep(b1, b2)]
            n    == delta_executions(e.time, delta)
            runs == RunSteps({ [c |-> Borrow(e1), trace |-> << >>, steps |-> 0] },
                             n, e.keypad, checks)
        IN  { [e |-> IF run.c.panic # "none" THEN Return(e1, run.c)
                     ELSE [Return(e1, run.c) EXCEPT !.time = e.time + delta],
               trace |-> run.trace, steps |-> run.steps] : run \in runs }

\* a plausible slip: the paused flag is not consulted
Emulator_emulate_ignoring_paused(e, delta, checks) ==
    emulate_running(e, delta, checks)

\* Emulator::emulate
Emulator_emulate(e, delta, checks) ==
    IF e.paused THEN { [e |-> e, trace |-> << >>, steps |-> 0] }
    ELSE emulate_running(e, delta, checks)

\* Emulator::step_execute: one Cpu::execute call, paused or not
Emulator_step_execute(e, checks) ==
    { [e |-> Return(e, run.c), trace |-> run.trace, steps |-> run.steps]
      : run \in RunSteps({ [c |-> Borrow(e), trace |-> << >>, steps |-> 0] },
                         1, e.keypad, checks) }

\* Emulator::load_rom: paused is cleared before the memory is written
Emulator_load_rom(e, rom) ==
    [e EXCEPT !.paused = FALSE, !.memory = Memory_load_rom(e.memory, rom)]

Emulator_key_pressed(e, key) == [e EXCEPT !.keypad = Keypad_pressed(e.keypad, key)]

Emulator_key_released(e, key) == [e EXCEPT !.keypad = Keypad_released(e.keypad, key)]

\* membership of an operation name in the trace of a call
InTrace(trace, name) == \E k \in DOMAIN trace : trace[k].op = name

\* the emulator fields take the values of e
Becomes(e) ==
    /\ beeping' = e.beeping
    /\ delay_timer' = e.delay_timer
    /\ display' = e.display
    /\ keypad' = e.keypad
    /\ memory' = e.memory
    /\ paused' = e.paused
    /\ register' = e.register
    /\ sound_timer' = e.sound_timer
    /\ time' = e.time
    /\ panic' = e.panic

\* ----------------------------------------------------------------- actions
\* the emulator system::drag_and_drop_rom builds for each file:
\* Emulator::new() followed by load_rom(&rom)
Dropped == [id \in DOMAIN Roms |-> Emulator_load_rom(Emulator_new, Roms[id])]

\* system::drag_and_drop_rom: a dropped file replaces the emulator resource
\* by a new emulator with the file loaded
drag_and_drop_rom(id) ==
    /\ panic = "none"
    /\ Becomes(Dropped[id])
    /\ last_op' = [name |-> "load_rom", rom |-> id, result |-> "Ok"]
    /\ cpu_steps' = 0
    /\ total_delta' = 0
    /\ key_event' = [k \in Keys |-> "none"]
    /\ recent_press' = None
    /\ released_since' = FALSE
    /\ sound_set' = [duration |-> None, ticked |-> 0]
    /\ UNCHANGED overflow_checks

key_pressed(key) ==
    /\ panic = "none"
    /\ Becomes(Emulator_key_pressed(Self, key))
    /\ key_event' = [key_event EXCEPT ![key] = "press"]
    /\ recent_press' = key
    /\ released_since' = FALSE
    /\ last_op' = [name |-> "key_pressed", key |-> key]
    /\ UNCHANGED << overflow_checks, cpu_steps, total_delta, sound_set >>

key_released(key) ==
    /\ panic = "none"
    /\ Becomes(Emulator_key_released(Self, key))
    /\ key_event' = [key_event EXCEPT ![key] = "release"]
    /\ released_since' = (released_since \/ key = recent_press)
    /\ last_op' = [name |-> "key_released", key |-> key]
    /\ UNCHANGED << overflow_checks, cpu_steps, total_delta, recent_press,
                    sound_set >>

\* the history of the sound timer after a call that ticked it by ticked
\* and then ran the operations of trace, leaving the timer at remaining
SoundSetAfter(ticked, trace, remaining) ==
    IF InTrace(trace, "LDST")
    THEN [duration |-> remaining, ticked |-> 0]
    ELSE [sound_set EXCEPT !.ticked = sound_set.ticked + ticked]

\* system::emulate: one emulate call with the frame's delta
Emulated(delta) ==
    /\ panic = "none"
    /\ \E out \in Emulator_emulate(Self, delta, overflow_checks) :
         /\ Len(out.e.register.stack) <= MaxStack
         /\ Becomes(out.e)
         /\ cpu_steps' = cpu_steps + out.steps
         /\ total_delta' = IF paused THEN total_delta ELSE total_delta + delta
         /\ sound_set' = SoundSetAfter(IF paused THEN 0 ELSE delta, out.trace,
                                       out.e.sound_timer)
         /\ last_op' = [name |-> "emulate", delta |-> delta,
                        trace |-> out.trace, was_paused |-> paused,
                        result |-> IF out.e.panic = "none"
                                   THEN "returned" ELSE "panicked"]
    /\ UNCHANGED << overflow_checks, key_event, recent_press, released_since >>

emulate(delta) ==
    /\ time + delta <= MaxTime
    /\ Emulated(delta)

step_execute ==
    /\ panic = "none"
    /\ \E out \in Emulator_step_execute(Self, overflow_checks) :
         /\ Len(out.e.register.stack) <= MaxStack
         /\ Becomes(out.e)
         /\ sound_set' = SoundSetAfter(0, out.trace, out.e.sound_timer)
         /\ last_op' = [name |-> "step_execute", trace |-> out.trace,
                        result |-> IF out.e.panic = "none"
                                   THEN "returned" ELSE "panicked"]
    /\ UNCHANGED << overflow_checks, cpu_steps, total_delta,
                    key_event, recent_press, released_since >>

Next ==
    \/ \E id \in DOMAIN Roms : drag_and_drop_rom(id)
    \/ \E key \in Keys : key_pressed(key)
    \/ \E key \in Keys : key_released(key)
    \/ \E delta \in Deltas : emulate(delta)
    \/ step_execute

Spec == Init /\ [][Next]_vars

\* ------------------------------------------------------------------ claims
\* the operation the next Cpu::execute call will fetch in this state
NextOp == Fetch(Borrow(Self), overflow_checks)

\* this step is a call of the named facade method
Called(name) == last_op'.name = name

LastOf(trace) == trace[Len(trace)]

\* C1: on a running emulator the CPU steps executed by all emulate calls so
\* far number floor(T / execute_interval), T the sum of the deltas handed
\* over, whatever the split of T into calls
C1_StepsFollowElapsedTime ==
    (panic = "none") =>
        /\ cpu_steps = total_delta \div execute_interval
        /\ time = total_delta

\* C1 witness: 2000 us were handed over in two calls of 1000 us, neither as
\* long as the interval, and one step has run
C1_Witness ==
    /\ panic = "none"
    /\ last_op.name = "emulate"
    /\ last_op.delta = 1000
    /\ cpu_steps = 1
    /\ total_delta = 2000

\* C2: an emulate call on a paused emulator changes no field of the
\* emulator and executes no CPU step
C2_PausedEmulateChangesNothing ==
    [][ (Called("emulate") /\ paused) =>
            /\ UNCHANGED emu
            /\ panic' = panic
            /\ cpu_steps' = cpu_steps
            /\ last_op'.trace = << >> ]_vars

\* C2 witness: emulate has returned on a paused emulator
C2_Witness ==
    /\ last_op.name = "emulate"
    /\ last_op.was_paused
    /\ paused

\* C3: in one emulate call on a running emulator both timers lose the delta
\* once, before the first CPU step: a timer no step of the call sets ends at
\* its old value less the delta, an FX07 that ends the call has read the
\* ticked delay timer, and a timer set by the FX15/FX18 that ends the call
\* holds the full value set
C3_TimersTickOnceBeforeSteps ==
    [][ (Called("emulate") /\ ~paused /\ panic' = "none") =>
          LET trace == last_op'.trace
              delta == last_op'.delta
          IN  /\ ~InTrace(trace, "LDDTV") =>
                    delay_timer' = Timer_tick(delay_timer, delta)
              /\ ~InTrace(trace, "LDST") =>
                    sound_timer' = Timer_tick(sound_timer, delta)
              /\ (trace # << >> /\ LastOf(trace).op = "LDVDT"
                    /\ ~InTrace(trace, "LDDTV")) =>
                    register'.v[LastOf(trace).x] =
                        Timer_get(Timer_tick(delay_timer, delta), overflow_checks)
              /\ (trace # << >> /\ LastOf(trace).op = "LDDTV") =>
                    delay_timer' = Timer_set(register'.v[LastOf(trace).x])
              /\ (trace # << >> /\ LastOf(trace).op = "LDST") =>
                    sound_timer' = Timer_set(register'.v[LastOf(trace).x]) ]_vars

\* C3 witness: an emulate call has ended on FX07 with the delay timer
\* running, so the register holds the reading taken after the tick
C3_Witness ==
    /\ last_op.name = "emulate"
    /\ ~last_op.was_paused
    /\ panic = "none"
    /\ last_op.trace # << >>
    /\ LastOf(last_op.trace).op = "LDVDT"
    /\ delay_timer > 0
    /\ register.v[1] = Timer_get(delay_timer, overflow_checks)

\* C4: after load_rom the ROM bytes sit at 0x200.., every other byte of the
\* RAM (the font included) is what it was before the call, and paused is
\* false
C4_RomLoadedAt0x200 ==
    (last_op.name = "load_rom") =>
        LET rom    == Roms[last_op.rom]
            before == Emulator_new.memory
        IN  /\ \A i \in 0..(Len(rom) - 1) :
                  Memory_get_byte(memory, RomStart + i) = rom[i + 1]
            /\ \A a \in 0..(Len(before) - 1) :
                  (a < RomStart \/ a >= RomStart + Len(rom)) =>
                      Memory_get_byte(memory, a) = Memory_get_byte(before, a)
            /\ \A k \in 1..Len(Font) :
                  Memory_get_byte(memory, FontStart + k - 1) = Font[k]
            /\ paused = FALSE

\* C4 witness: the keypad ROM has just been loaded
C4_Witness ==
    /\ last_op.name = "load_rom"
    /\ Roms[last_op.rom] = RomKeys
    /\ Memory_get_byte(memory, RomStart) = 96
    /\ Memory_get_byte(memory, RomStart + 1) = 2

\* C5: load_rom with more than 3584 bytes fails with InvalidRom and leaves
\* the emulator as it was: the RAM keeps 4096 bytes with their contents and
\* a paused emulator stays paused
C5_OversizedRomRejected ==
    (last_op.name = "load_rom" /\ Len(Roms[last_op.rom]) > MaxRomLen) =>
        /\ last_op.result = "InvalidRom"
        /\ Len(memory) = RamSize
        /\ memory = Emulator_new.memory
        /\ paused = Emulator_new.paused

\* this step is a facade call that ran exactly one Cpu::execute, on the
\* named operation
SingleStep(name) ==
    /\ last_op'.name \in {"step_execute", "emulate"}
    /\ Len(last_op'.trace) = 1
    /\ last_op'.trace[1].op = name

C7_SkipOnPerKeyState ==
    [][ ((SingleStep("SKP") \/ SingleStep("SKNP")) /\ panic' = "none") =>
          LET o    == last_op'.trace[1]
              vx   == register.v[o.x]
              held == vx \in Nibble /\ Keypad_is_pressed(keypad, vx)
              skip == IF o.op = "SKP" THEN held ELSE ~held
          IN  register'.program_counter =
                  register.program_counter + (IF skip THEN 4 ELSE 2) ]_vars

\* the keypad agrees with the history of key events
KeypadFollowsEvents ==
    /\ \A k \in Keys :
          Keypad_is_pressed(keypad, k) <=> (key_event[k] = "press")
    /\ \A k \in Nibble :
          (Keypad_read(keypad) = k) <=> (recent_press = k /\ ~released_since)
    /\ (Keypad_read(keypad) = None) <=> (recent_press = None \/ released_since)

\* C8: is_pressed(k) holds exactly when the latest event of key k is a
\* press; read() is Some(k) exactly when k is the key pressed last and not
\* released since; releasing another key leaves read() as it is
C8_KeypadFollowsEvents ==
    [][ /\ KeypadFollowsEvents'
        /\ (Called("key_released") /\ last_op'.key # Keypad_read(keypad)) =>
              Keypad_read(keypad') = Keypad_read(keypad) ]_vars

\* C8 witness: key 1 then key 2 were pressed and key 1 was released; the
\* keypad still reads 2
C8_Witness ==
    /\ last_op.name = "key_released"
    /\ last_op.key = 1
    /\ key_event[1] = "release"
    /\ key_event[2] = "press"
    /\ Keypad_read(keypad) = 2
    /\ ~Keypad_is_pressed(keypad, 1)
    /\ Keypad_is_pressed(keypad, 2)

\* C9: CALL NNN at PC = p sets PC = NNN and pushes p; RET pops the top
\* address q and sets PC = q + 2, leaving the rest of the stack; a CALL
\* whose target is a RET is back at p + 2 with the stack it started from
C9_CallAndReturn ==
    [][ /\ (SingleStep("CALL") /\ panic' = "none") =>
              LET nnn == last_op'.trace[1].nnn
                  back == Cpu_execute(Borrow(Self)', keypad', 0, overflow_checks)
              IN  /\ register'.program_counter = nnn
                  /\ register'.stack = Append(register.stack, register.program_counter)
                  /\ register'.v = register.v /\ register'.i = register.i
                  /\ (NextOp'.op = "RET") =>
                        back.register =
                            [register EXCEPT
                                !.program_counter = register.program_counter + 2]
        /\ (SingleStep("RET") /\ register.stack # << >>) =>
              LET n == Len(register.stack)
              IN  /\ panic' = "none"
                  /\ register'.program_counter = register.stack[n] + 2
                  /\ register'.stack = SubSeq(register.stack, 1, n - 1)
                  /\ register'.v = register.v /\ register'.i = register.i ]_vars

\* C9 witness: the inner and then the outer subroutine of the ROM have
\* returned: PC is behind the first CALL and the stack is empty again
C9_Witness ==
    /\ last_op.name = "step_execute"
    /\ Len(last_op.trace) = 1
    /\ last_op.trace[1].op = "RET"
    /\ register.program_counter = RomStart + 2
    /\ register.stack = << >>
    /\ panic = "none"

\* C10: the return stack never holds more than 16 addresses
C10_StackAtMost16 == Len(register.stack) <= 16

\* ---------------------------------------------------------- decoding a word
\* largest register index X of the words handed to the decoder
MaxX == 1

\* the 16-bit words the decoder is run on: every first nibble and every low
\* byte, with X in 0..MaxX
DecodeWords ==
    { n1 * 4096 + n2 * 256 + lo : n1 \in Nibble, n2 \in 0..MaxX, lo \in 0..255 }

\* the emulator fields have the values of e and nothing has been called yet
\* but load_rom
Starts(e) ==
    /\ beeping = e.beeping
    /\ delay_timer = e.delay_timer
    /\ display = e.display
    /\ keypad = e.keypad
    /\ memory = e.memory
    /\ paused = e.paused
    /\ register = e.register
    /\ sound_timer = e.sound_timer
    /\ time = e.time
    /\ panic = e.panic
    /\ overflow_checks \in BOOLEAN
    /\ last_op = [name |-> "load_rom", rom |-> 0, result |-> "Ok"]
    /\ cpu_steps = 0
    /\ total_delta = 0
    /\ key_event = [k \in Keys |-> "none"]
    /\ recent_press = None
    /\ released_since = FALSE
    /\ sound_set = [duration |-> None, ticked |-> 0]

\* a new emulator with a ROM of one instruction loaded
InitDecode ==
    \E word \in DecodeWords :
        Starts(Emulator_load_rom(Emulator_new, W(word)))

\* the instruction is stepped through
NextDecode == step_execute

SpecDecode == InitDecode /\ [][NextDecode]_vars

\* this step is one Cpu::execute call, made by step_execute or by emulate,
\* that found its two instruction bytes in the RAM
OneStep ==
    /\ last_op'.name \in {"step_execute", "emulate"}
    /\ Len(last_op'.trace) = 1
    /\ NextOp.op # "panic"

\* C11: RET with an empty stack fails with StackUnderflow, an error the
\* caller receives from the call, and changes nothing
C11_RetOnEmptyStackFails ==
    [][ (SingleStep("RET") /\ register.stack = << >>) =>
            /\ panic' = "none"
            /\ last_op'.result = "StackUnderflow"
            /\ UNCHANGED emu ]_vars

\* the word at the program counter, as the bytes hi and lo
WordAtPc ==
    << Memory_get_byte(memory, register.program_counter),
       Memory_get_byte(memory, register.program_counter + 1) >>

\* the rows of the opcode table: the operation of the word hi, lo, or
\* "none" when no row matches
TableRow(hi, lo) ==
    LET n1 == hi \div 16
        n  == lo % 16
    IN  CASE hi = 0 /\ lo = 224 -> "CLS"
          [] hi = 0 /\ lo = 238 -> "RET"
          [] n1 = 0 /\ ~(hi = 0 /\ lo \in {224, 238}) -> "SYS"
          [] n1 = 1 -> "JP"
          [] n1 = 2 -> "CALL"
          [] n1 = 3 -> "SE1"
          [] n1 = 4 -> "SNE1"
          [] n1 = 5 /\ n = 0 -> "SE2"
          [] n1 = 6 -> "LD1"
          [] n1 = 7 -> "ADD1"
          [] n1 = 8 /\ n \in 0..7 \union {14} ->
                << "LD2", "OR", "AND2", "XOR", "ADD2", "SUB", "SHR", "SUBN",
                   "", "", "", "", "", "", "SHL" >>[n + 1]
          [] n1 = 9 /\ n = 0 -> "SNE2"
          [] n1 = 10 -> "LDI"
          [] n1 = 11 -> "JPV0"
          [] n1 = 12 -> "RND"
          [] n1 = 13 -> "DRW"
          [] n1 = 14 /\ lo = 158 -> "SKP"
          [] n1 = 14 /\ lo = 161 -> "SKNP"
          [] n1 = 15 /\ lo = 7   -> "LDVDT"
          [] n1 = 15 /\ lo = 10  -> "LDK"
          [] n1 = 15 /\ lo = 21  -> "LDDTV"
          [] n1 = 15 /\ lo = 24  -> "LDST"
          [] n1 = 15 /\ lo = 30  -> "ADDI"
          [] n1 = 15 /\ lo = 41  -> "LDF"
          [] n1 = 15 /\ lo = 51  -> "BinaryCodedDecimalConversion"
          [] n1 = 15 /\ lo = 85  -> "StoreMemory"
          [] n1 = 15 /\ lo = 101 -> "LoadMemory"
          [] OTHER -> "none"

\* the operands the table gives the operation of the word hi, lo
TableOperation(hi, lo) ==
    LET name == TableRow(hi, lo)
        x    == hi % 16
        y    == lo \div 16
        n    == lo % 16
        nn   == lo
        nnn  == (hi * 256 + lo) % 4096
    IN  CASE name \in {"CLS", "RET"} -> [op |-> name]
          [] name \in {"SYS", "JP", "CALL", "LDI", "JPV0"} ->
                [op |-> name, nnn |-> nnn]
          [] name \in {"SE1", "SNE1", "LD1", "ADD1", "RND"} ->
                [op |-> name, x |-> x, nn |-> nn]
          [] name \in {"SE2", "LD2", "OR", "AND2", "XOR", "ADD2", "SUB", "SHR",
                       "SUBN", "SHL", "SNE2"} ->
                [op |-> name, x |-> x, y |-> y]
          [] name = "DRW" -> [op |-> name, x |-> x, y |-> y, n |-> n]
          [] OTHER -> [op |-> name, x |-> x]

\* C12: a step that fetches a word matching no row of the opcode table
\* fails with UnknownOpcode, an error the caller receives from the call, and
\* changes no field of the emulator
C12_UnknownOpcodeFails ==
    [][ (OneStep /\ TableRow(WordAtPc[1], WordAtPc[2]) = "none") =>
            /\ panic' = "none"
            /\ last_op'.result = "UnknownOpcode"
            /\ UNCHANGED emu ]_vars

MaxOperand == 2

\* the values of V0 and V1 the operation is run on
OperandValues == (0..MaxOperand) \union {255}

\* one word of every operation of Operation::parse, on V0 and V1, and a
\* word no arm matches (0x5011): 00E0 00EE 0123 1208 2208 3001 4001 5010
\* 6005 7001 8010 8011 8012 8013 8014 8015 8016 8017 801E 9010 A123 B208
\* C00F D015 E09E E0A1 F007 F00A F015 F018 F01E F029 F033 F155 F165 5011
OpWords ==
    { 224, 238, 291, 4616, 8712, 12289, 16385, 20496,
      24581, 28673, 32784, 32785, 32786, 32787, 32788, 32789,
      32790, 32791, 32798, 36880, 41251, 45576, 49167, 53269,
      57502, 57505, 61447, 61450, 61461, 61464, 61470, 61481,
      61491, 61781, 61797, 20497 }

\* LD V0,a; LD V1,b; LD I,0x050; the word at 0x206; JP 0x208; JP 0x20A
RomOp(a, b, word) ==
    W(24576 + a) \o W(24832 + b) \o W(41040) \o W(word) \o W(4616) \o W(4618)

\* a new emulator with one of the ROMs loaded
InitOps ==
    \E a \in OperandValues, b \in OperandValues, word \in OpWords :
        Starts(Emulator_load_rom(Emulator_new, RomOp(a, b, word)))

\* the ROM is stepped through while keys go down
NextOps ==
    \/ step_execute
    \/ \E key \in Keys : key_pressed(key)

SpecOps == InitOps /\ [][NextOps]_vars

\* the operations that write PC themselves
WritesPc == {"JP", "CALL", "RET", "JPV0"}

\* the skip operations, and whether the condition of o holds in this state
Skips == {"SE1", "SNE1", "SE2", "SNE2", "SKP", "SKNP"}

SkipCondition(o) ==
    CASE o.op = "SE1"  -> register.v[o.x] = o.nn
      [] o.op = "SNE1" -> register.v[o.x] # o.nn
      [] o.op = "SE2"  -> register.v[o.x] = register.v[o.y]
      [] o.op = "SNE2" -> register.v[o.x] # register.v[o.y]
      [] o.op = "SKP"  -> Keypad_read(keypad) = register.v[o.x]
      [] o.op = "SKNP" -> Keypad_read(keypad) # register.v[o.x]
      [] OTHER -> FALSE

\* C14: every operation of the table other than JP, CALL, RET, JP V0, a
\* skip whose condition holds and FX0A with no key down completes and leaves
\* PC at its old value plus 2
C14_PcAdvancesByTwo ==
    [][ (OneStep /\ TableRow(WordAtPc[1], WordAtPc[2]) # "none") =>
          LET o == last_op'.trace[1]
          IN  (/\ o.op \notin WritesPc
               /\ ~(o.op \in Skips /\ SkipCondition(o))
               /\ ~(o.op = "LDK" /\ Keypad_read(keypad) = None)) =>
                  /\ panic' = "none"
                  /\ register'.program_counter = register.program_counter + 2
      ]_vars

\* C15: 3XNN, 4XNN, 5XY0 and 9XY0 add 4 to PC when their condition holds and
\* 2 otherwise, and change no V register, nor I, the stack, the memory or
\* the display
C15_SkipsOnRegisters ==
    [][ (OneStep /\ last_op'.trace[1].op \in {"SE1", "SNE1", "SE2", "SNE2"}) =>
          LET o == last_op'.trace[1]
          IN  /\ panic' = "none"
              /\ register'.program_counter =
                    register.program_counter + (IF SkipCondition(o) THEN 4 ELSE 2)
              /\ register'.v = register.v
              /\ register'.i = register.i
              /\ register'.stack = register.stack
              /\ memory' = memory
              /\ display' = display ]_vars

\* C15 witness: SE V0,1 has skipped with V0 = 1, PC went from 0x206 to 0x20A
C15_Witness ==
    /\ last_op.name = "step_execute"
    /\ last_op.trace = << [op |-> "SE1", x |-> 0, nn |-> 1] >>
    /\ register.v[0] = 1
    /\ register.program_counter = RomStart + 10
    /\ panic = "none"

\* ------------------------------------------------------------- the beeper
\* largest value of the time accumulator (microseconds) the frames reach
MaxFrameTime == 80000

\* the deltas (microseconds) of the frames: 1 ms, 3 ms and 20 ms
FrameDeltas == Deltas \union {20000}

\* LD V0,2; LD ST,V0; JP 0x204: the sound timer is set once
RomBeepOnce == W(24578) \o W(61464) \o W(4612)

\* LD V0,2; LD ST,V0; JP 0x202: the sound timer is set again and again
RomBeepAgain == W(24578) \o W(61464) \o W(4610)

\* a new emulator with one of the two ROMs loaded
InitBeep ==
    \E rom \in {RomBeepOnce, RomBeepAgain} :
        Starts(Emulator_load_rom(Emulator_new, rom))

emulate_frame(delta) ==
    /\ time + delta <= MaxFrameTime
    /\ Emulated(delta)

NextBeep == \E delta \in FrameDeltas : emulate_frame(delta)

SpecBeep == InitBeep /\ [][NextBeep]_vars

\* C16: after an emulate call on a running emulator is_beeping() holds
\* exactly when the sound timer reads more than 0 after the tick and the
\* reading differs from the one before the tick; a reading of 0 after the
\* tick never beeps
C16_BeepOnChangedReading ==
    [][ (Called("emulate") /\ ~paused /\ panic' = "none") =>
          LET b1 == Timer_get(sound_timer, overflow_checks)
              b2 == Timer_get(Timer_tick(sound_timer, last_op'.delta),
                              overflow_checks)
          IN  /\ beeping' <=> (b2 > 0 /\ b1 # b2)
              /\ (b2 = 0) => ~beeping' ]_vars

\* C16 witness: a call has ended with the beeper on, and one with the
\* reading gone from 1 to 0 and the beeper off is covered by C17's
C16_Witness ==
    /\ last_op.name = "emulate"
    /\ ~last_op.was_paused
    /\ panic = "none"
    /\ beeping
    /\ ~InTrace(last_op.trace, "LDST")
    /\ Timer_get(sound_timer, overflow_checks) = 1

\* the sound timer was set by FX18 with Vx = 2 and not since
SetToTwo == sound_set.duration = Timer_set(2)

\* C17: when FX18 with Vx = 2 sets the sound timer in the first of two
\* emulate(20 ms) calls, is_beeping() holds after the second; and once 34 ms
\* or more were ticked since the timer was set, with no FX18 since,
\* is_beeping() is false after every emulate call
C17_BeepOfTwoTicks ==
    [][ (Called("emulate") /\ ~paused /\ panic' = "none") =>
          /\ (/\ last_op.name = "emulate"
              /\ last_op.delta = 20000
              /\ total_delta = 20000
              /\ InTrace(last_op.trace, "LDST")
              /\ SetToTwo
              /\ last_op'.delta = 20000) => beeping'
          /\ (SetToTwo' /\ sound_set'.ticked >= 34000) => ~beeping' ]_vars

\* C17 witness: two calls of 20 ms were made, the first set the timer, and
\* the beeper is on
C17_Witness ==
    /\ last_op.name = "emulate"
    /\ last_op.delta = 20000
    /\ total_delta = 40000
    /\ sound_set = [duration |-> Timer_set(2), ticked |-> 20000]
    /\ beeping
    /\ panic = "none"

\* C17 witness of the end of the beep: 40 ms were ticked since the timer
\* was set and the beeper is off
C17_WitnessSilent ==
    /\ last_op.name = "emulate"
    /\ sound_set = [duration |-> Timer_set(2), ticked |-> 40000]
    /\ ~beeping
    /\ sound_timer = 0
    /\ panic = "none"

\* ------------------------------------------------------------ sprite draws
\* largest sprite height N of the draws
MaxRows == 4

\* the values of the X and of the Y register of the draws: the corner, the
\* right and bottom edges, and values past 63 and 31
DrawXs == {0, 58, 60, 124}
DrawYs == {0, 28, 30, 62}

\* where the background glyph is drawn
BackgroundAt == { <<1, 1>>, <<59, 29>> }

\* the sprite rows the ROM carries behind its code: FF 81 A5 FF 3C 18
SpriteData == << 255, 129, 165, 255, 60, 24 >>

\* 0x200 LD V0,x0; LD V1,y0; LD I,0x050; DRW V0,V1,5 (the glyph "0");
\* 0x208 LD Vr,x; LD V1,y; LD I,0x214; 0x20E DRW Vr,V1,n three times;
\* 0x214 the sprite rows, which end the run: 0xFF81 is no operation
RomDraw(x0, y0, r, x, y, n) ==
    W(24576 + x0) \o W(24832 + y0) \o W(41040) \o W(53269) \o
    W(24576 + r * 256 + x) \o W(24832 + y) \o W(41492) \o
    W(53264 + r * 256 + n) \o W(53264 + r * 256 + n) \o
    W(53264 + r * 256 + n) \o SpriteData

\* a new emulator with one of the ROMs loaded
InitDraw ==
    \E at \in BackgroundAt, r \in {0, 15}, x \in DrawXs, y \in DrawYs,
       n \in 0..MaxRows :
        Starts(Emulator_load_rom(Emulator_new, RomDraw(at[1], at[2], r, x, y, n)))

NextDraw == step_execute

SpecDraw == InitDraw /\ [][NextDraw]_vars

\* the start position of the DXYN o in this state
DrawStart(o) == << register.v[o.x] % 64, register.v[o.y] % 32 >>

\* the display pixels under the set bits of the sprite of the DXYN o: bit
\* 7 - p of the byte at I + r lies on (xs + p, ys + r), on the screen only
Covered(o) ==
    LET xs == DrawStart(o)[1]
        ys == DrawStart(o)[2]
    IN  { <<xs + p, ys + r>> : <<p, r>> \in
            { pr \in (0..7) \X (0..(o.n - 1)) :
                /\ xs + pr[1] <= 63
                /\ ys + pr[2] <= 31
                /\ Bit(Memory_get_byte(memory, register.i + pr[2]), 7 - pr[1]) = 1 } }

\* C18: DXYN toggles exactly the display pixels under set sprite bits and
\* leaves VF = 1 when one of them was on before the draw, VF = 0 otherwise,
\* whatever VF was
C18_DrawTogglesCoveredPixels ==
    [][ (SingleStep("DRW") /\ panic' = "none") =>
          LET o == last_op'.trace[1]
          IN  /\ Changed(display, display') = Covered(o)
              /\ register'.v[15] =
                    (IF Covered(o) \cap display # {} THEN 1 ELSE 0) ]_vars

\* C18 witness: a draw has ended with VF = 0 that started with VF = 1, and
\* it turned pixels on
C18_Witness ==
    /\ last_op.name = "step_execute"
    /\ last_op.trace[1].op = "DRW"
    /\ register.program_counter = RomStart + 20
    /\ register.v[0] = 0 /\ register.v[1] = 28
    /\ register.v[15] = 0
    /\ <<0, 28>> \in display
    /\ <<1, 1>> \in display

\* the rectangle a DXYN at (xs, ys) of height n may touch
DrawRectangle(o) ==
    LET xs == DrawStart(o)[1]
        ys == DrawStart(o)[2]
        xe == IF xs + 7 < 63 THEN xs + 7 ELSE 63
        ye == IF ys + o.n - 1 < 31 THEN ys + o.n - 1 ELSE 31
    IN  (xs..xe) \X (ys..ye)

C20_DrawTwiceRestores ==
    [][ (/\ SingleStep("DRW")
         /\ panic' = "none"
         /\ NextOp' = last_op'.trace[1]
         /\ DrawStart(NextOp)' = DrawStart(NextOp)) =>
          LET again == Cpu_execute(Borrow(Self)', keypad', 0, overflow_checks)
          IN  /\ register'.i = register.i
              /\ memory' = memory
              /\ again.panic = "none"
              /\ again.display = display ]_vars

\* the glyph "0" drawn at (59, 29), clipped at the bottom edge
GlyphAtEdge ==
    { <<59, 29>>, <<60, 29>>, <<61, 29>>, <<62, 29>>,
      <<59, 30>>, <<62, 30>>, <<59, 31>>, <<62, 31>> }

\* C20 witness: the second of two draws at (60, 30) over the glyph at
\* (59, 29) has run: the display shows the glyph alone again, VF = 1
C20_Witness ==
    /\ last_op.name = "step_execute"
    /\ last_op.trace[1] = [op |-> "DRW", x |-> 0, y |-> 1, n |-> 4]
    /\ register.program_counter = RomStart + 18
    /\ register.v[0] = 60 /\ register.v[1] = 30
    /\ register.v[15] = 1
    /\ display = GlyphAtEdge

\* this step is the first of two draws of the same DXYN at the same start
\* position
FirstOfTwoDraws ==
    /\ SingleStep("DRW")
    /\ panic' = "none"
    /\ NextOp' = last_op'.trace[1]
    /\ DrawStart(NextOp)' = DrawStart(NextOp)

\* VF after the draw that follows this step
FlagOfSecondDraw ==
    Cpu_execute(Borrow(Self)', keypad', 0, overflow_checks).register.v[15]

\* C21 as stated: after the second of two draws of the same sprite at the
\* same position VF = 1
C21_SecondDrawSetsFlag ==
    [][ FirstOfTwoDraws => FlagOfSecondDraw = 1 ]_vars

\* C21 amended: after the second of two draws of the same sprite at the
\* same position VF = 1 exactly when the first draw turned a pixel on, that
\* is when a pixel under a set sprite bit was off before the first draw
C21_SecondDrawFlagsPixelsTurnedOn ==
    [][ FirstOfTwoDraws =>
          FlagOfSecondDraw =
            (IF Covered(last_op'.trace[1]) \ display # {} THEN 1 ELSE 0) ]_vars

\* the glyph "0" drawn at (1, 1)
GlyphAtCorner ==
    { <<1, 1>>, <<2, 1>>, <<3, 1>>, <<4, 1>>, <<1, 2>>, <<4, 2>>,
      <<1, 3>>, <<4, 3>>, <<1, 4>>, <<4, 4>>,
      <<1, 5>>, <<2, 5>>, <<3, 5>>, <<4, 5>> }

\* C21 witness: the second of two draws at (0, 28), clear of the glyph at
\* (1, 1), has run and left VF = 1 and the glyph alone
C21_Witness ==
    /\ last_op.name = "step_execute"
    /\ last_op.trace[1] = [op |-> "DRW", x |-> 0, y |-> 1, n |-> 4]
    /\ register.program_counter = RomStart + 18
    /\ register.v[0] = 0 /\ register.v[1] = 28
    /\ register.v[15] = 1
    /\ display = GlyphAtCorner

\* ------------------------------------------------- arithmetic on registers
\* the values of the two operands: small ones, the values around 0x80 and
\* the largest
ArithValues == OperandValues \union {127, 128, 254}

\* the register indices X, Y of the operation: distinct registers, VF as
\* X, VF as Y, and one register twice
ArithRegisters == { <<0, 1>>, <<15, 1>>, <<0, 15>>, <<1, 1>>, <<15, 15>> }

\* 8XY4, 8XY5, 8XY6, 8XY7, 8XYE by their last nibble, and 7XNN as 16
ArithOps == {4, 5, 6, 7, 14, 16}

\* LD Vx,a; LD Vy,b; the operation on Vx, Vy (7XNN with NN = b); JP 0x206
RomArith(x, y, a, b, op) ==
    W(24576 + x * 256 + a) \o W(24576 + y * 256 + b) \o
    W(IF op = 16 THEN 28672 + x * 256 + b
                 ELSE 32768 + x * 256 + y * 16 + op) \o
    W(4614)

\* a new emulator with one of the ROMs loaded
InitArith ==
    \E xy \in ArithRegisters, a \in ArithValues, b \in ArithValues,
       op \in ArithOps :
        Starts(Emulator_load_rom(Emulator_new, RomArith(xy[1], xy[2], a, b, op)))

NextArith == step_execute

SpecArith == InitArith /\ [][NextArith]_vars

\* the V registers after this step are v but for Vx and VF
OthersKept(x) ==
    \A j \in Nibble : (j # x /\ j # 15) => register'.v[j] = register.v[j]

\* C22: 8XY4 leaves VF = 1 when Vx + Vy exceeds 255 and VF = 0 otherwise,
\* also with VF as X or Y, and Vx = (Vx + Vy) mod 256 when X is not VF
C22_AddSetsCarry ==
    [][ SingleStep("ADD2") =>
          LET o   == last_op'.trace[1]
              sum == register.v[o.x] + register.v[o.y]
          IN  /\ panic' = "none"
              /\ register'.v[15] = (IF sum > 255 THEN 1 ELSE 0)
              /\ (o.x # 15) => register'.v[o.x] = sum % 256
              /\ OthersKept(o.x) ]_vars

\* C23: 8XY5 leaves Vx = (Vx - Vy) mod 256 and VF = 1 when Vx > Vy, VF = 0
\* otherwise; 8XY7 leaves Vx = (Vy - Vx) mod 256 and VF = 1 when Vy > Vx,
\* VF = 0 otherwise; VF = 0 when Vx = Vy (X not being VF)
C23_SubSetsNotBorrow ==
    [][ ((SingleStep("SUB") \/ SingleStep("SUBN"))
            /\ last_op'.trace[1].x # 15) =>
          LET o  == last_op'.trace[1]
              vx == register.v[o.x]
              vy == register.v[o.y]
              l  == IF o.op = "SUB" THEN vx ELSE vy
              r  == IF o.op = "SUB" THEN vy ELSE vx
          IN  /\ panic' = "none"
              /\ register'.v[o.x] = (l - r + 256) % 256
              /\ register'.v[15] = (IF l > r THEN 1 ELSE 0)
              /\ OthersKept(o.x) ]_vars

\* C24: 8XY6 leaves VF = the lowest bit Vx had and Vx = Vx >> 1; 8XYE
\* leaves VF = the highest bit Vx had and Vx = (Vx << 1) mod 256; Vy is
\* not read (X = VF leaves one register for both results: it is to hold the
\* flag, as with 8XY4)
C24_ShiftSetsBitShiftedOut ==
    [][ (SingleStep("SHR") \/ SingleStep("SHL")) =>
          LET o  == last_op'.trace[1]
              vx == register.v[o.x]
          IN  /\ panic' = "none"
              /\ register'.v[15] =
                    (IF o.op = "SHR" THEN vx % 2 ELSE vx \div 128)
              /\ (o.x # 15) =>
                    register'.v[o.x] =
                        (IF o.op = "SHR" THEN vx \div 2 ELSE (vx * 2) % 256)
              /\ OthersKept(o.x) ]_vars

\* C25: 7XNN leaves Vx = (Vx + NN) mod 256, never fails, and changes no
\* other register, VF included when X is not VF
C25_AddByteWraps ==
    [][ SingleStep("ADD1") =>
          LET o == last_op'.trace[1]
          IN  /\ panic' = "none"
              /\ register'.v =
                    [register.v EXCEPT ![o.x] = (register.v[o.x] + o.nn) % 256]
              /\ register'.i = register.i
              /\ register'.program_counter = register.program_counter + 2 ]_vars

\* C25 witness: ADD V0,0xFF has run on V0 = 2 with VF = 255: V0 = 1 and VF
\* is what it was
C25_Witness ==
    /\ last_op.name = "step_execute"
    /\ last_op.trace = << [op |-> "ADD1", x |-> 0, nn |-> 255] >>
    /\ register.v[0] = 1
    /\ register.v[15] = 255
    /\ register.program_counter = RomStart + 6
    /\ panic = "none"

\* ------------------------------------------- registers to memory and back
\* the values of V0, V1, V2
MemValues == {0, 1, 255}

\* the addresses I points at: the font area and the second word of the ROM
MemAddresses == {80, 514}

\* the operand X of FX55 and FX65
MemXs == {0, 1, 2, 15}

\* LD V0,a; LD V1,b; LD V2,c; LD I,address; FX55 or FX65; JP 0x20A
RomMem(a, b, c, address, x, store) ==
    W(24576 + a) \o W(24832 + b) \o W(25088 + c) \o W(40960 + address) \o
    W(61440 + x * 256 + (IF store THEN 85 ELSE 101)) \o W(4618)

\* a new emulator with one of the ROMs loaded
InitMem ==
    \E a \in MemValues, b \in MemValues, c \in MemValues,
       address \in MemAddresses, x \in MemXs, store \in BOOLEAN :
        Starts(Emulator_load_rom(Emulator_new, RomMem(a, b, c, address, x, store)))

NextMem == step_execute

SpecMem == InitMem /\ [][NextMem]_vars

\* C26: FX65 leaves V[i] = memory[I + i] for every i in 0..x, V[j] as it
\* was for every j above x, and memory as it was
C26_LoadFillsRegisters ==
    [][ SingleStep("LoadMemory") =>
          LET x == last_op'.trace[1].x
          IN  /\ panic' = "none"
              /\ \A i \in 0..x :
                    register'.v[i] = Memory_get_byte(memory, register.i + i)
              /\ \A j \in Nibble : j > x => register'.v[j] = register.v[j]
              /\ memory' = memory ]_vars

\* C27: FX55 leaves memory[I + i] = V[i] for every i in 0..x and every
\* other byte of memory, every V register and I as they were
C27_StoreWritesRegisters ==
    [][ SingleStep("StoreMemory") =>
          LET x == last_op'.trace[1].x
          IN  /\ panic' = "none"
              /\ \A address \in 0..(RamSize - 1) :
                    Memory_get_byte(memory', address) =
                        (IF address - register.i \in 0..x
                         THEN register.v[address - register.i]
                         ELSE Memory_get_byte(memory, address))
              /\ register'.v = register.v
              /\ register'.i = register.i ]_vars

\* C27 witness: LD [I],V2 has run with I = 0x050 on V0 = 1, V1 = 255,
\* V2 = 0: the three bytes are in the font area, the fourth byte of the
\* glyph is the font's
C27_Witness ==
    /\ last_op.name = "step_execute"
    /\ last_op.trace = << [op |-> "StoreMemory", x |-> 2] >>
    /\ register.i = FontStart
    /\ register.v[0] = 1 /\ register.v[1] = 255 /\ register.v[2] = 0
    /\ Memory_get_byte(memory, FontStart) = 1
    /\ Memory_get_byte(memory, FontStart + 1) = 255
    /\ Memory_get_byte(memory, FontStart + 2) = 0
    /\ Memory_get_byte(memory, FontStart + 3) = 144
    /\ panic = "none"

\* ------------------------------------------------ one byte through FX..
\* every value of a register
ByteValues == 0..255

\* LD V0,n; LD I,0x300; LD B,V0; LD F,V0; LD DT,V0; LD V1,DT; JP 0x20C
RomByte(n) ==
    W(24576 + n) \o W(41728) \o W(61491) \o W(61481) \o W(61461) \o
    W(61703) \o W(4620)

\* a new emulator with one of the ROMs loaded
InitByte ==
    \E n \in ByteValues : Starts(Emulator_load_rom(Emulator_new, RomByte(n)))

NextByte == step_execute

SpecByte == InitByte /\ [][NextByte]_vars

\* C28: FX29 leaves I = 0x50 + (Vx & 0x0F) * 5, an address of the font
\* area 0x050..0x09B
C28_FontAddressOfLowNibble ==
    [][ SingleStep("LDF") =>
          LET vx == register.v[last_op'.trace[1].x]
          IN  /\ panic' = "none"
              /\ register'.i = FontStart + (vx % 16) * 5
              /\ register'.i \in FontStart..155 ]_vars

\* C29: FX33 leaves memory[I] = Vx div 100, memory[I+1] = (Vx div 10) mod
\* 10, memory[I+2] = Vx mod 10, three decimal digits that make up Vx, and
\* changes no other byte of memory and no register but PC
C29_BcdWritesThreeDigits ==
    [][ SingleStep("BinaryCodedDecimalConversion") =>
          LET vx == register.v[last_op'.trace[1].x]
              h  == Memory_get_byte(memory', register.i)
              t  == Memory_get_byte(memory', register.i + 1)
              u  == Memory_get_byte(memory', register.i + 2)
          IN  /\ panic' = "none"
              /\ h = vx \div 100 /\ t = (vx \div 10) % 10 /\ u = vx % 10
              /\ {h, t, u} \subseteq 0..9
              /\ 100 * h + 10 * t + u = vx
              /\ \A address \in 0..(RamSize - 1) :
                    address - register.i \notin 0..2 =>
                        Memory_get_byte(memory', address) =
                            Memory_get_byte(memory, address)
              /\ register' = [register EXCEPT
                                !.program_counter = register.program_counter + 2]
    ]_vars

\* C29 witness: LD B,V0 has run on V0 = 107 with I = 0x300: the bytes at
\* 0x300 are 1, 0, 7
C29_Witness ==
    /\ last_op.name = "step_execute"
    /\ last_op.trace = << [op |-> "BinaryCodedDecimalConversion", x |-> 0] >>
    /\ register.v[0] = 107
    /\ register.i = 768
    /\ Memory_get_byte(memory, 768) = 1
    /\ Memory_get_byte(memory, 769) = 0
    /\ Memory_get_byte(memory, 770) = 7
    /\ panic = "none"

\* the smallest integer that is at least a / b
CeilDiv(a, b) == (a + b - 1) \div b

\* the step before this one was LD DT,V0 and nothing else
DelaySetJustNow ==
    /\ last_op.name = "step_execute"
    /\ last_op.trace = << [op |-> "LDDTV", x |-> 0] >>

\* C30: FX07 reads ceil(remaining_ms * 60 / 1000), at most 255, without
\* failing, and directly after LD DT,V0 it reads the value of V0
C30_TimerReadsCeiling ==
    [][ SingleStep("LDVDT") =>
          LET x         == last_op'.trace[1].x
              millis    == delay_timer \div 1000
              ceiling   == CeilDiv(millis * 60, 1000)
          IN  /\ panic' = "none"
              /\ register'.v[x] = (IF ceiling > 255 THEN 255 ELSE ceiling)
              /\ DelaySetJustNow => register'.v[x] = register.v[0] ]_vars

\* ------------------------------------------------- the delay timer running
\* the values the program sets the delay timer to
TimerValues == {0, 1, 2, 3, 4, 254, 255}

\* LD V0,n; LD DT,V0; JP 0x204: the delay timer is set once
RomTimer(n) == W(24576 + n) \o W(61461) \o W(4612)

\* a new emulator with one of the ROMs loaded
InitTimer ==
    \E n \in TimerValues : Starts(Emulator_load_rom(Emulator_new, RomTimer(n)))

\* the ROM is stepped or run frame by frame
NextTimer ==
    \/ step_execute
    \/ \E delta \in FrameDeltas : emulate_frame(delta)

SpecTimer == InitTimer /\ [][NextTimer]_vars

\* the value Timer::get returns for the delay timer of this state
DelayReading == Timer_get(delay_timer, overflow_checks)

\* C31: across a call that does not set the delay timer, the value get()
\* returns for it does not increase, and a timer that has run out reads 0
\* and goes on reading 0
C31_ReadingNeverIncreases ==
    [][ (~InTrace(last_op'.trace, "LDDTV")
            /\ DelayReading # Panicked /\ DelayReading' # Panicked) =>
          /\ DelayReading' <= DelayReading
          /\ delay_timer = 0 => (DelayReading = 0 /\ DelayReading' = 0) ]_vars

\* ------------------------------------------------------ the index register
\* the addresses LD I,NNN puts into I before the operation
IndexAddresses == {0, 80, 3840, 4094, 4095}

\* LD V0,a; LD I,nnn; ADD I,V0 or LD F,V0; JP 0x206
RomIndex(a, nnn, add) ==
    W(24576 + a) \o W(40960 + nnn) \o W(IF add THEN 61470 ELSE 61481) \o
    W(4614)

\* a new emulator with one of the ROMs loaded
InitIndex ==
    \E a \in ArithValues, nnn \in IndexAddresses, add \in BOOLEAN :
        Starts(Emulator_load_rom(Emulator_new, RomIndex(a, nnn, add)))

NextIndex == step_execute

SpecIndex == InitIndex /\ [][NextIndex]_vars

\* C32: the index register is an address of the RAM, at most 0xFFF, in
\* every state
C32_IndexAddressable == register.i <= RamSize - 1

\* C33: a step on an operation other than BNNN leaves the program counter
\* even
C33_PcStaysEven ==
    [][ (OneStep /\ NextOp.op # "JPV0" /\ panic' = "none") =>
          register'.program_counter % 2 = 0 ]_vars

\* C34: a step on 0NNN other than 00E0 and 00EE returns without error, adds
\* 2 to PC and changes no other register, nor the stack, the memory, the
\* display, the timers or the keypad
C34_SysIsIgnored ==
    [][ SingleStep("SYS") =>
          /\ panic' = "none"
          /\ last_op'.result = "returned"
          /\ register' = [register EXCEPT
                            !.program_counter = register.program_counter + 2]
          /\ UNCHANGED << memory, display, delay_timer, sound_timer, keypad,
                          beeping, paused >> ]_vars

\* ----------------------------------------------------- the IBM Logo program
\* the 21 instructions of the program, 0x200..0x229: CLS; LD I,0x22A;
\* LD V0,0x0C; LD V1,0x08; DRW V0,V1,15; ADD V0,9; LD I,0x239; DRW; ...;
\* JP 0x228 at 0x228
IbmLogoCode ==
    << 0, 224, 162, 42, 96, 12, 97, 8, 208, 31, 112, 9,
       162, 57, 208, 31, 162, 72, 112, 8, 208, 31, 112, 4,
       162, 87, 208, 31, 112, 8, 162, 102, 208, 31, 112, 8,
       162, 117, 208, 31, 18, 40 >>

\* the six sprites of 15 rows the program draws, 0x22A..0x283
IbmLogoSprites ==
    << 255, 0, 255, 0, 60, 0, 60, 0, 60, 0, 60, 0,
       255, 0, 255, 255, 0, 255, 0, 56, 0, 63, 0, 63,
       0, 56, 0, 255, 0, 255, 128, 0, 224, 0, 224, 0,
       128, 0, 128, 0, 224, 0, 224, 0, 128, 248, 0, 252,
       0, 62, 0, 63, 0, 59, 0, 57, 0, 248, 0, 248,
       3, 0, 7, 0, 15, 0, 191, 0, 251, 0, 243, 0,
       227, 0, 67, 224, 0, 224, 0, 128, 0, 128, 0, 128,
       0, 128, 0, 224, 0, 224 >>

\* the address of the JP 0x228 that ends the program
LogoTail == RomStart + Len(IbmLogoCode) - 2

\* a new emulator with the program loaded, followed by the sprites of the
\* file or by rows with every bit set
InitLogo ==
    \E sprites \in {IbmLogoSprites, [k \in DOMAIN IbmLogoSprites |-> 255]} :
        Starts(Emulator_load_rom(Emulator_new, IbmLogoCode \o sprites))

\* the host calls emulate frame after frame; the editor steps in between
EmulateFrames == \E delta \in FrameDeltas : emulate_frame(delta)

NextLogo ==
    \/ step_execute
    \/ EmulateFrames

SpecLogo == InitLogo /\ [][NextLogo]_vars

\* some emulate call of the run can still be made: the emulator has not
\* failed and a frame fits into the time of the run
FrameFits ==
    /\ panic = "none"
    /\ \E delta \in FrameDeltas : time + delta <= MaxFrameTime

\* the frame loop goes on calling emulate for as long as the run lasts:
\* weak fairness of EmulateFrames, its enabling condition written out
FramesGoOn == []<>(~FrameFits) \/ []<><<EmulateFrames>>_vars

SpecLogoFair == SpecLogo /\ FramesGoOn

\* C35: the program counter reaches 0x228 and stays there, and from then
\* on no step changes the display, a V register, I or the memory
C35_LogoSettlesAtTail ==
    /\ <>[](register.program_counter = LogoTail)
    /\ [][ register.program_counter = LogoTail =>
             /\ register'.program_counter = LogoTail
             /\ register' = register
             /\ display' = display
             /\ memory' = memory
             /\ panic' = "none" ]_vars

\* C35 witness: JP 0x228 has run at 0x228 after the six draws: V0 is at
\* its last value 0x0C + 9 + 8 + 4 + 8 + 8, I at the last sprite, and the
\* display is not empty
C35_Witness ==
    /\ last_op.name \in {"emulate", "step_execute"}
    /\ last_op.trace # << >>
    /\ LastOf(last_op.trace) = [op |-> "JP", nnn |-> LogoTail]
    /\ register.program_counter = LogoTail
    /\ register.v[0] = 49 /\ register.v[1] = 8
    /\ register.i = 629
    /\ display # {}
    /\ time >= 21 * execute_interval
    /\ panic = "none"

\* ------------------------------------------------------ waiting for a key
\* no key of the keypad is held
NoKeyHeld == \A k \in Nibble : ~Keypad_is_pressed(keypad, k)

\* what saturating_sub leaves of a remaining time after a tick
TickedBy(remaining_us, duration) ==
    IF remaining_us >= duration THEN remaining_us - duration ELSE 0

\* C36: an emulate call made while the program counter is at FX0A and no
\* key is held leaves the register file (PC, V, I, stack), the memory and
\* the display as they are, so that the next call finds the same, and
\* takes its delta off the delay timer and off the sound timer
C36_WaitingKeepsTimersRunning ==
    [][ (Called("emulate") /\ NextOp.op = "LDK" /\ NoKeyHeld) =>
          /\ panic' = "none"
          /\ register' = register
          /\ memory' = memory
          /\ display' = display
          /\ NextOp' = NextOp /\ NoKeyHeld'
          /\ delay_timer' = TickedBy(delay_timer, last_op'.delta)
          /\ sound_timer' = TickedBy(sound_timer, last_op'.delta) ]_vars

\* C36 witness: an emulate call of 3 ms has run FX0A twice with no key
\* held: PC is still at the FX0A of the ROM and both timers, set to 2, have
\* lost 3 ms
C36_Witness ==
    /\ last_op.name = "emulate"
    /\ last_op.delta = 3000
    /\ last_op.trace = << [op |-> "LDK", x |-> 2], [op |-> "LDK", x |-> 2] >>
    /\ NextOp = [op |-> "LDK", x |-> 2]
    /\ register.program_counter = RomStart + 8
    /\ NoKeyHeld
    /\ delay_timer = Timer_set(2) - 3000
    /\ sound_timer = Timer_set(2) - 3000
    /\ panic = "none"

\* C39: the key read() returns is a key is_pressed() reports as held
C39_ReadKeyIsHeld ==
    Keypad_read(keypad) # None => Keypad_is_pressed(keypad, Keypad_read(keypad))

\* C39 witness: key 1 went down, key 2 went down, key 1 went up: read()
\* returns key 2, which is held, and key 1 is not
C39_Witness ==
    /\ key_event[1] = "release" /\ key_event[2] = "press"
    /\ last_op = [name |-> "key_released", key |-> 1]
    /\ Keypad_read(keypad) = 2
    /\ Keypad_is_pressed(keypad, 2)
    /\ ~Keypad_is_pressed(keypad, 1)

\* ------------------------------------------------ sprites at every edge
\* the values of VX and VY: the corners, the last position a whole row or
\* a whole sprite fits, and values above the screen size
EdgeXs == {0, 56, 57, 63, 64, 127, 255}

EdgeYs == {0, 17, 18, 31, 32, 255}

\* the numbers of rows N: none, one and the most
EdgeRows == {0, 1, 15}

\* LD V0,x; LD V1,y; LD I,0x20A; DRW V0,V1,n; JP 0x208; then 15 sprite rows
\* with every bit set
RomEdge(x, y, n) ==
    W(24576 + x) \o W(24832 + y) \o W(41482) \o W(53264 + n) \o W(4616) \o
    [k \in 1..15 |-> 255]

\* a new emulator with one of the ROMs loaded
InitEdge ==
    \E x \in EdgeXs, y \in EdgeYs, n \in EdgeRows :
        Starts(Emulator_load_rom(Emulator_new, RomEdge(x, y, n)))

NextEdge == step_execute

SpecEdge == InitEdge /\ [][NextEdge]_vars

\* the cells of the 64 x 32 matrix
Screen == (0..63) \X (0..31)

\* C37: DXYN reads and writes cells of the 64 x 32 matrix only: the step
\* does not fail on an index outside the matrix and the pixels that are on
\* after it are cells of the matrix
C37_DrawStaysOnScreen ==
    [][ SingleStep("DRW") =>
          /\ panic' = "none"
          /\ display' \subseteq Screen ]_vars

\* C37 witness: DRW V0,V1,15 has run with V0 = V1 = 255: of the 15 rows of
\* 8 set bits the one cell (63, 31) is on
C37_Witness ==
    /\ last_op.name = "step_execute"
    /\ last_op.trace = << [op |-> "DRW", x |-> 0, y |-> 1, n |-> 15] >>
    /\ register.v[0] = 255 /\ register.v[1] = 255
    /\ display = { <<63, 31>> }
    /\ panic = "none"

\* --------------------------------------------------- the last bytes of RAM
\* the addresses LD I,NNN puts into I: the middle of the RAM and its end
RamAddresses == {768, 4091, 4093, 4094, 4095}

\* LD B,V0; LD [I],V2; LD V2,[I]; DRW V0,V0,5; JP 0xFFE; JP 0xFFF
RamWords == {61491, 62037, 62053, 53253, 8190 - 4096, 8191 - 4096}

\* LD I,nnn; the word; JP 0x204
RomRam(nnn, word) == W(40960 + nnn) \o W(word) \o W(4612)

\* a new emulator with one of the ROMs loaded
InitRam ==
    \E nnn \in RamAddresses, word \in RamWords :
        Starts(Emulator_load_rom(Emulator_new, RomRam(nnn, word)))

NextRam == step_execute

SpecRam == InitRam /\ [][NextRam]_vars

\* C38: no step fails on a RAM index outside the RAM vector: an address
\* past 0xFFF is wrapped or reported, never indexed
C38_RamAccessInRange == panic # "index out of bounds"

\* ------------------------------------------------- the timers running out
\* the length of a run (microseconds): longer than the longest timer
MaxRunTime == 5000000

\* the values the program sets both timers to
ExpireValues == {0, 2, 60, 255}

\* the deltas of the run: a frame of 20 ms and a stall of 40 ms
RunDeltas == {20000, 40000}

\* LD V0,n; LD DT,V0; LD ST,V0; JP 0x206: both timers are set once
RomExpire(n) == W(24576 + n) \o W(61461) \o W(61464) \o W(4614)

\* a new emulator with one of the ROMs loaded
InitExpire ==
    \E n \in ExpireValues : Starts(Emulator_load_rom(Emulator_new, RomExpire(n)))

emulate_run(delta) ==
    /\ time + delta <= MaxRunTime
    /\ Emulated(delta)

NextExpire == \E delta \in RunDeltas : emulate_run(delta)

SpecExpire == InitExpire /\ [][NextExpire]_vars

\* some emulate call of the run can still be made: the emulator has not
\* failed and a frame fits into the time of the run
RunFits ==
    /\ panic = "none"
    /\ \E delta \in RunDeltas : time + delta <= MaxRunTime

\* both timers read 0 and the beeper is off
Expired ==
    /\ Timer_get(delay_timer, overflow_checks) = 0
    /\ Timer_get(sound_timer, overflow_checks) = 0
    /\ ~beeping

\* C40: with emulate called again and again and the timers set no more,
\* both timers come to read 0 and the beeper comes to be off, and they
\* stay so: a run of emulate calls longer than the longest timer ends with
\* both timers reading 0 and the beeper off, and once both timers have run
\* out a call that sets neither leaves them reading 0 and the beeper off
C40_TimersRunOut ==
    [][ /\ ~RunFits' => Expired'
        /\ (delay_timer = 0 /\ sound_timer = 0
              /\ ~InTrace(last_op'.trace, "LDDTV")
              /\ ~InTrace(last_op'.trace, "LDST")) => Expired' ]_vars

====
